---- MODULE Spec2Model ----
(***************************************************************************)
(* termcolor-json: colored JSON output on a termcolor stream.              *)
(*                                                                         *)
(* The model follows src/src/lib.rs: the Theme value, the four to_writer   *)
(* entry points, the ColorFormatter callbacks, the helpers set_color,      *)
(* reset and with_color, and the SharedWriter forwarding.  The serde_json  *)
(* serializer that drives the callbacks and the wrapped Compact/Pretty     *)
(* formatter that produces the JSON bytes are modelled at their interface. *)
(***************************************************************************)
EXTENDS Integers, Sequences, FiniteSets, TLC

VARIABLES
    theme,           \* the &Theme the ColorFormatter holds (a theme being built)
    layout,          \* the formatter F of the call: "compact" or "pretty"
    supports_color,  \* what the caller's stream answers to supports_color()
    path,            \* "none" before the call, then "plain" or "color"
    log,             \* operations issued on the caller's stream, in order
    err,             \* an operation on the stream has failed
    writing_key,     \* ColorFormatter.writing_key
    need_reset,      \* ColorFormatter.need_reset
    current_indent,  \* PrettyFormatter.current_indent of the wrapped F
    has_value,       \* PrettyFormatter.has_value of the wrapped F
    ref,             \* a plain-JSON engine alone, fed the same token events
    stack,           \* the serializer's open arrays and objects
    pc,              \* the serializer's position in the walk
    result,          \* what the top-level call returned
    events,          \* token events the serializer has sent so far
    lastpart,        \* the previous piece of the open string: "f", "e" or "none"
    faulty,          \* the caller's stream can fail
    tcall,           \* the last Theme API call made while building a theme
    borrowed,        \* live borrows of the SharedWriter's RefCell
    again            \* an earlier top-level call has returned

vars == <<theme, layout, supports_color, path, log, err, writing_key,
          need_reset, current_indent, has_value, ref, stack, pc, result,
          events, lastpart, faulty, tcall, borrowed, again>>

----------------------------------------------------------------------------
(* Bounds of the model *)

\* The value being serialized is finite: after this many token events it has
\* no further element, entry, nested array or object, or piece of string to
\* start; what is open is then closed.
MaxEvents == 9

----------------------------------------------------------------------------
(* termcolor::ColorSpec, as far as the library uses it *)

ColorSpec_new == [fg |-> "None", bold |-> FALSE, intense |-> FALSE]

is_none(c) == c.fg = "None" /\ ~c.bold /\ ~c.intense

set_fg(c, color) == [c EXCEPT !.fg = color]

set_bold(c, yes) == [c EXCEPT !.bold = yes]

set_intense(c, yes) == [c EXCEPT !.intense = yes]

----------------------------------------------------------------------------
(* Theme *)

Theme_new(default) ==
    [reset |-> default, null |-> default, bool |-> default,
     number |-> default, string |-> default, object_key |-> default]

Theme_none == Theme_new(ColorSpec_new)

Theme_null(t) == t.null

Theme_bool(t) == t.bool

Theme_number(t) == t.number

Theme_string(t) == t.string

Theme_object_key(t) == t.object_key

null_mut(t, c) == [t EXCEPT !.null = c]

bool_mut(t, c) == [t EXCEPT !.bool = c]

number_mut(t, c) == [t EXCEPT !.number = c]

\* Mutant: the accessor hands out the neighbouring field.
string_mut_object_key(t, c) == [t EXCEPT !.object_key = c]

string_mut(t, c) == [t EXCEPT !.string = c]

object_key_mut(t, c) == [t EXCEPT !.object_key = c]

Theme_default ==
    LET t0 == Theme_none
        t1 == null_mut(t0, set_bold(set_fg(Theme_null(t0), "Cyan"), TRUE))
        t2 == bool_mut(t1, set_bold(set_fg(Theme_bool(t1), "Cyan"), TRUE))
        t3 == number_mut(t2, set_fg(Theme_number(t2), "Cyan"))
        t4 == string_mut(t3, set_fg(Theme_string(t3), "Green"))
        t5 == object_key_mut(t4,
                 set_intense(set_fg(Theme_object_key(t4), "Blue"), TRUE))
    IN  t5

----------------------------------------------------------------------------
(* The caller's stream W and the SharedWriter around it.                   *)
(*                                                                         *)
(* A formatter run is a record s: the stream's operation log, whether an   *)
(* operation has failed, the countdown k to the operation that fails (0:   *)
(* none fails), and the fields of the two formatters.                      *)

NoSpec == ColorSpec_new

\* A write_all of buf, issued by the plain-JSON callback `by`.
WriteOp(buf, by) ==
    [op |-> "write", bytes |-> buf, spec |-> NoSpec, by |-> by,
     fn |-> "write_all", ok |-> TRUE, live |-> 0, after_delegate |-> FALSE]

\* A set_color of spec, issued for the callback `by` through fn: the helper
\* set_color or the helper reset.
ColorOp(spec, by, fn) ==
    [op |-> "set_color", bytes |-> "", spec |-> spec, by |-> by,
     fn |-> fn, ok |-> TRUE, live |-> 0, after_delegate |-> FALSE]

\* One operation on W: it is issued, and fails when the countdown says so.
\* The entry keeps the number of borrows that are live while it runs, and
\* whether the callback at work has entered its delegate F by then.
Stream_op(s, o) ==
    [s EXCEPT !.log = Append(@, [o EXCEPT !.ok = (s.k # 1),
                                          !.live = s.borrowed,
                                          !.after_delegate = s.entered]),
              !.err = (@ \/ s.k = 1),
              !.k   = IF @ = 0 THEN 0 ELSE @ - 1]

\* RefCell::borrow_mut: panics when a borrow is live, else takes the borrow.
borrow_mut(s) ==
    IF s.borrowed > 0 THEN [s EXCEPT !.err = TRUE, !.panic = TRUE]
    ELSE [s EXCEPT !.borrowed = @ + 1]

\* Mutant: the RefMut outlives the statement that took it.
drop_RefMut_leaked(s) == s

\* The temporary RefMut is dropped at the end of the statement.
drop_RefMut(s) == [s EXCEPT !.borrowed = @ - 1]

\* impl Write for &SharedWriter: self.inner.borrow_mut().write_all(buf)
SharedWriter_write_all(s, buf, by) ==
    LET b == borrow_mut(s)
    IN  IF b.panic THEN b ELSE drop_RefMut(Stream_op(b, WriteOp(buf, by)))

\* impl WriteColor for &SharedWriter: self.inner.borrow_mut().set_color(spec)
SharedWriter_set_color(s, spec, by, fn) ==
    LET b == borrow_mut(s)
    IN  IF b.panic THEN b ELSE drop_RefMut(Stream_op(b, ColorOp(spec, by, fn)))

\* The writer a formatter callback is handed: W itself on the plain path,
\* the SharedWriter on the color path; both end on the same stream.
write_all(s, w, buf, by) ==
    IF w = "shared" THEN SharedWriter_write_all(s, buf, by)
    ELSE Stream_op(s, WriteOp(buf, by))

----------------------------------------------------------------------------
(* The wrapped plain-JSON engine F (serde_json CompactFormatter or         *)
(* PrettyFormatter with the two-space indent).                             *)

\* A callback of F has been entered: self.formatter.xxx(&mut self.writer).
enter(s) == [s EXCEPT !.entered = TRUE]

RECURSIVE indent(_, _, _, _)
indent(s, w, n, by) ==
    IF n = 0 \/ s.err THEN s
    ELSE indent(write_all(s, w, "  ", by), w, n - 1, by)

NumberText(h, v) ==
    IF h \in {"write_f32", "write_f64"} THEN ToString(v) \o ".0"
    ELSE ToString(v)

CharEscapeText(e) ==
    CASE e = "Quote"    -> "\\\""
      [] e = "LineFeed" -> "\\n"
      [] e = "Tab"      -> "\\t"
      [] OTHER          -> "\\\\"

Formatter_write_null(s0, w) ==
    LET s == enter(s0) IN
    write_all(s, w, "null", "write_null")

Formatter_write_bool(s0, w, value) ==
    LET s == enter(s0) IN
    write_all(s, w, IF value THEN "true" ELSE "false", "write_bool")

Formatter_write_number(s0, w, h, value) ==
    LET s == enter(s0) IN
    write_all(s, w, NumberText(h, value), "write_number")

Formatter_begin_string(s0, w) ==
    LET s == enter(s0) IN
    write_all(s, w, "\"", "begin_string")

Formatter_end_string(s0, w) ==
    LET s == enter(s0) IN
    write_all(s, w, "\"", "end_string")

Formatter_write_string_fragment(s0, w, fragment) ==
    LET s == enter(s0) IN
    write_all(s, w, fragment, "write_string_fragment")

Formatter_write_char_escape(s0, w, e) ==
    LET s == enter(s0) IN
    write_all(s, w, CharEscapeText(e), "write_char_escape")

Formatter_write_raw_fragment(s0, w, fragment) ==
    LET s == enter(s0) IN
    write_all(s, w, fragment, "write_raw_fragment")

Formatter_begin(s, w, open, by) ==
    IF layout = "pretty"
    THEN write_all([s EXCEPT !.current_indent = @ + 1, !.has_value = FALSE],
                   w, open, by)
    ELSE write_all(s, w, open, by)

Formatter_end(s, w, close, by) ==
    IF layout = "pretty"
    THEN LET s1 == [s EXCEPT !.current_indent = @ - 1]
             s2 == IF s1.has_value THEN write_all(s1, w, "\n", by) ELSE s1
             s3 == IF s1.has_value /\ ~s2.err
                   THEN indent(s2, w, s2.current_indent, by) ELSE s2
         IN  IF s3.err THEN s3 ELSE write_all(s3, w, close, by)
    ELSE write_all(s, w, close, by)

Formatter_begin_item(s, w, first, by) ==
    IF layout = "pretty"
    THEN LET s1 == write_all(s, w, IF first THEN "\n" ELSE ",\n", by)
         IN  IF s1.err THEN s1 ELSE indent(s1, w, s1.current_indent, by)
    ELSE IF first THEN s ELSE write_all(s, w, ",", by)

Formatter_end_item(s) ==
    IF layout = "pretty" THEN [s EXCEPT !.has_value = TRUE] ELSE s

Formatter_begin_array(s0, w) ==
    LET s == enter(s0) IN
    Formatter_begin(s, w, "[", "begin_array")

Formatter_end_array(s0, w) ==
    LET s == enter(s0) IN
    Formatter_end(s, w, "]", "end_array")

Formatter_begin_array_value(s0, w, first) ==
    LET s == enter(s0) IN
    Formatter_begin_item(s, w, first, "begin_array_value")

Formatter_end_array_value(s0, w) ==
    LET s == enter(s0) IN
    Formatter_end_item(s)

Formatter_begin_object(s0, w) ==
    LET s == enter(s0) IN
    Formatter_begin(s, w, "{", "begin_object")

Formatter_end_object(s0, w) ==
    LET s == enter(s0) IN
    Formatter_end(s, w, "}", "end_object")

Formatter_begin_object_key(s0, w, first) ==
    LET s == enter(s0) IN
    Formatter_begin_item(s, w, first, "begin_object_key")

Formatter_end_object_key(s0, w) ==
    LET s == enter(s0) IN
    s

Formatter_begin_object_value(s0, w) ==
    LET s == enter(s0) IN
    write_all(s, w, IF layout = "pretty" THEN ": " ELSE ":",
              "begin_object_value")

Formatter_end_object_value(s0, w) ==
    LET s == enter(s0) IN
    Formatter_end_item(s)

----------------------------------------------------------------------------
(* set_color, reset, with_color.  set_color answers a pair: the run after  *)
(* it and the bool it returns.                                             *)

\* Mutant: the empty spec is not told apart.
set_color_unconditional(s, color, by) ==
    [s |-> SharedWriter_set_color(s, color, by, "set_color"), ret |-> TRUE]

set_color(s, color, by) ==
    IF is_none(color)
    THEN [s |-> s, ret |-> FALSE]
    ELSE [s |-> SharedWriter_set_color(s, color, by, "set_color"), ret |-> TRUE]

reset(s, by) == SharedWriter_set_color(s, theme.reset, by, "reset")

\* The closure |w| f.write_xxx(w, value) a scalar callback hands to with_color:
\* which callback of F it calls and with which value.
Closure(call, h, value) == [call |-> call, h |-> h, value |-> value]

Closure_call(write, w) ==
    CASE write.call = "write_null" -> Formatter_write_null(w, "shared")
      [] write.call = "write_bool" -> Formatter_write_bool(w, "shared", write.value)
      [] OTHER -> Formatter_write_number(w, "shared", write.h, write.value)

\* Mutant: the uncolored branch forgets to write.
with_color_skip(s, color, write, by) ==
    LET r == set_color(s, color, by)
    IN  IF r.s.err THEN r.s
        ELSE IF r.ret
             THEN LET s2 == Closure_call(write, r.s)
                  IN  IF s2.err THEN s2 ELSE reset(s2, by)
             ELSE r.s

\* Mutant: the reset is issued whatever the write returned.
with_color_finally(s, color, write, by) ==
    LET r == set_color(s, color, by)
    IN  IF r.s.err THEN r.s
        ELSE IF r.ret
             THEN reset(Closure_call(write, r.s), by)
             ELSE Closure_call(write, r.s)

with_color(s, color, write, by) ==
    LET r == set_color(s, color, by)
    IN  IF r.s.err THEN r.s
        ELSE IF r.ret
             THEN LET s2 == Closure_call(write, r.s)
                  IN  IF s2.err THEN s2 ELSE reset(s2, by)
             ELSE Closure_call(write, r.s)

----------------------------------------------------------------------------
(* impl Formatter for ColorFormatter.  Every callback ignores the writer   *)
(* the serializer hands it and writes through self.writer, the shared one. *)

\* Mutant: the flags are not initialised.
ColorFormatter_new_stale(s) == s

ColorFormatter_new(s) == [s EXCEPT !.writing_key = FALSE, !.need_reset = FALSE]

ColorFormatter_write_null(s) ==
    with_color(s, theme.null, Closure("write_null", "", 0), "write_null")

\* Mutant: a bool is colored as a number.
ColorFormatter_write_bool_as_number(s, value) ==
    with_color(s, theme.number, Closure("write_bool", "", value), "write_bool")

ColorFormatter_write_bool(s, value) ==
    with_color(s, theme.bool, Closure("write_bool", "", value), "write_bool")

\* write_i8 .. write_u64, write_f32, write_f64, write_number_str
\* Mutant: a number takes need_reset for its own reset.
ColorFormatter_write_number_clearing(s, h, value) ==
    [with_color(s, theme.number, Closure("write_number", h, value),
                "write_number") EXCEPT !.need_reset = FALSE]

ColorFormatter_write_number(s, h, value) ==
    with_color(s, theme.number, Closure("write_number", h, value),
               "write_number")

\* Mutant: writing_key is not consulted.
ColorFormatter_begin_string_always(s) ==
    LET r == set_color(s, theme.string, "begin_string")
    IN  IF r.s.err THEN r.s
        ELSE Formatter_begin_string([r.s EXCEPT !.need_reset = r.ret],
                                    "shared")

ColorFormatter_begin_string(s) ==
    IF ~s.writing_key
    THEN LET r == set_color(s, theme.string, "begin_string")
         IN  IF r.s.err THEN r.s
             ELSE Formatter_begin_string([r.s EXCEPT !.need_reset = r.ret],
                                         "shared")
    ELSE Formatter_begin_string(s, "shared")

\* Mutant: the reset does not depend on need_reset.
ColorFormatter_end_string_unconditional(s) ==
    LET s1 == Formatter_end_string(s, "shared")
    IN  IF s1.err THEN s1
        ELSE IF ~s1.writing_key
             THEN reset([s1 EXCEPT !.need_reset = FALSE], "end_string")
             ELSE s1

ColorFormatter_end_string(s) ==
    LET s1 == Formatter_end_string(s, "shared")
    IN  IF s1.err THEN s1
        ELSE IF ~s1.writing_key
             THEN \* mem::take(&mut self.need_reset)
                  LET s2 == [s1 EXCEPT !.need_reset = FALSE]
                  IN  IF s1.need_reset THEN reset(s2, "end_string") ELSE s2
             ELSE s1

ColorFormatter_write_string_fragment(s, fragment) ==
    Formatter_write_string_fragment(s, "shared", fragment)

\* Mutant: an escape clears need_reset.
ColorFormatter_write_char_escape_clearing(s, e) ==
    [Formatter_write_char_escape(s, "shared", e) EXCEPT !.need_reset = FALSE]

ColorFormatter_write_char_escape(s, e) ==
    Formatter_write_char_escape(s, "shared", e)

ColorFormatter_begin_array(s) == Formatter_begin_array(s, "shared")

ColorFormatter_end_array(s) == Formatter_end_array(s, "shared")

ColorFormatter_begin_array_value(s, first) ==
    Formatter_begin_array_value(s, "shared", first)

ColorFormatter_end_array_value(s) == Formatter_end_array_value(s, "shared")

ColorFormatter_begin_object(s) == Formatter_begin_object(s, "shared")

ColorFormatter_end_object(s) == Formatter_end_object(s, "shared")

\* Mutant: the color is set before the delegate writes the separator.
ColorFormatter_begin_object_key_early(s, first) ==
    LET s1 == [s EXCEPT !.writing_key = TRUE]
        r  == set_color(s1, theme.object_key, "begin_object_key")
    IN  IF r.s.err THEN r.s
        ELSE Formatter_begin_object_key([r.s EXCEPT !.need_reset = r.ret],
                                        "shared", first)

ColorFormatter_begin_object_key(s, first) ==
    LET s1 == [s EXCEPT !.writing_key = TRUE]
        s2 == Formatter_begin_object_key(s1, "shared", first)
    IN  IF s2.err THEN s2
        ELSE LET r == set_color(s2, theme.object_key, "begin_object_key")
             IN  IF r.s.err THEN r.s
                 ELSE [r.s EXCEPT !.need_reset = r.ret]

\* Mutant: the delegate is called before the reset.
ColorFormatter_end_object_key_late(s) ==
    LET s1 == Formatter_end_object_key(s, "shared")
    IN  IF s1.err THEN s1
        ELSE LET s2 == [s1 EXCEPT !.need_reset = FALSE]
                 s3 == IF s1.need_reset THEN reset(s2, "end_object_key")
                       ELSE s2
             IN  IF s3.err THEN s3 ELSE [s3 EXCEPT !.writing_key = FALSE]

\* Mutant: writing_key is not cleared.
ColorFormatter_end_object_key_sticky(s) ==
    LET s1 == [s EXCEPT !.need_reset = FALSE]
        s2 == IF s.need_reset THEN reset(s1, "end_object_key") ELSE s1
    IN  IF s2.err THEN s2 ELSE Formatter_end_object_key(s2, "shared")

ColorFormatter_end_object_key(s) ==
    LET s1 == [s EXCEPT !.need_reset = FALSE]
        s2 == IF s.need_reset THEN reset(s1, "end_object_key") ELSE s1
    IN  IF s2.err THEN s2
        ELSE LET s3 == Formatter_end_object_key(s2, "shared")
             IN  IF s3.err THEN s3
                 ELSE [s3 EXCEPT !.writing_key = FALSE]

ColorFormatter_begin_object_value(s) ==
    Formatter_begin_object_value(s, "shared")

ColorFormatter_end_object_value(s) == Formatter_end_object_value(s, "shared")

ColorFormatter_write_raw_fragment(s, fragment) ==
    Formatter_write_raw_fragment(s, "shared", fragment)

----------------------------------------------------------------------------
(* Inputs *)

Layouts == {"compact", "pretty"}

RedBold == set_bold(set_fg(ColorSpec_new, "Red"), TRUE)

\* Themes a caller can build with the public API.
Themes ==
    { Theme_none,
      Theme_default,
      Theme_new(RedBold),
      object_key_mut(Theme_default, ColorSpec_new) }

NumberHandlers ==
    {"write_i8", "write_i16", "write_i32", "write_i64",
     "write_u8", "write_u16", "write_u32", "write_u64",
     "write_f32", "write_f64", "write_number_str"}

\* What serde_json's map-key serializer sends between the quotes of a key
\* that is an integer.
KeyNumberHandlers ==
    {"write_i8", "write_i16", "write_i32", "write_i64",
     "write_u8", "write_u16", "write_u32", "write_u64"}

NumberValues == {1}

BoolValues == {TRUE}

Fragments == {"v"}

Escapes == {"LineFeed"}

RawFragments == {"{}"}

\* Which stream operation of a callback fails; 0: none.  No callback issues
\* more than a separator, the indentation and a color.
FailAt == IF faulty THEN 0 .. (Len(stack) + 2) ELSE {0}

More == events < MaxEvents

----------------------------------------------------------------------------
(* The run the serializer's formatter is in, and the reference engine *)

Cur(k) ==
    [log |-> log, err |-> err, k |-> k,
     current_indent |-> current_indent, has_value |-> has_value,
     writing_key |-> writing_key, need_reset |-> need_reset,
     borrowed |-> borrowed, panic |-> FALSE, entered |-> FALSE]

NoCall == [fn |-> "", arg |-> ColorSpec_new]

Fresh ==
    [log |-> << >>, err |-> FALSE, k |-> 0,
     current_indent |-> 0, has_value |-> FALSE,
     writing_key |-> FALSE, need_reset |-> FALSE,
     borrowed |-> 0, panic |-> FALSE, entered |-> FALSE]

Apply(s) ==
    /\ log' = s.log
    /\ err' = s.err
    /\ current_indent' = s.current_indent
    /\ has_value' = s.has_value
    /\ writing_key' = s.writing_key
    /\ need_reset' = s.need_reset
    /\ borrowed' = s.borrowed

\* Mutant: the negation is lost.
UseColorFormatter_inverted(sc) == ~sc

\* if !writer.supports_color() { plain serializer } else { color formatter }
UseColorFormatter(sc) == sc

Top == stack[Len(stack)]

Pop == SubSeq(stack, 1, Len(stack) - 1)

\* The serializer propagates a callback's error with `?`; otherwise it moves
\* on, and value.serialize returns Ok once the outermost value is closed.
Step(s, r, nextpc, nextstack) ==
    /\ Apply(s)
    /\ ref' = r
    /\ events' = events + 1
    /\ IF s.err
       THEN /\ pc' = "done"
            /\ result' = (IF s.panic THEN "Panic" ELSE "Err")
            /\ stack' = stack
       ELSE /\ stack' = nextstack
            /\ IF nextpc = "after" /\ nextstack = << >>
               THEN pc' = "done" /\ result' = "Ok"
               ELSE pc' = nextpc /\ result' = result

Frame == <<theme, layout, supports_color, path, faulty, tcall, again>>

----------------------------------------------------------------------------
(* The entry points *)

\* The plain branch never reads the theme: only the ColorFormatter holds it.
to_writer_with_theme_and_formatter(t, f) ==
    /\ pc = "start"
    /\ layout' = f
    /\ IF ~UseColorFormatter(supports_color)
       THEN path' = "plain" /\ theme' = theme /\ Apply(Cur(0))
       ELSE path' = "color" /\ theme' = t /\ Apply(ColorFormatter_new(Cur(0)))
    /\ pc' = "value"
    /\ UNCHANGED <<supports_color, ref, stack, result, events, lastpart,
                   faulty, tcall, again>>

to_writer == to_writer_with_theme_and_formatter(Theme_default, "pretty")

to_writer_compact == to_writer_with_theme_and_formatter(Theme_default, "compact")

to_writer_with_theme ==
    \E t \in Themes : to_writer_with_theme_and_formatter(t, "pretty")

ToWriterWithThemeAndFormatter ==
    \E t \in Themes, f \in Layouts : to_writer_with_theme_and_formatter(t, f)

----------------------------------------------------------------------------
(* The token events of a walk.  On the color path the serializer's         *)
(* formatter is the ColorFormatter, on the plain path it is F itself.      *)

WriteNull ==
    /\ pc = "value"
    /\ \E k \in FailAt :
         Step(IF path = "color" THEN ColorFormatter_write_null(Cur(k))
              ELSE Formatter_write_null(Cur(k), "w"),
              Formatter_write_null(ref, "w"), "after", stack)
    /\ UNCHANGED <<Frame, lastpart>>

WriteBool ==
    /\ pc \in {"value", "keyscalar"}
    /\ \E k \in FailAt, b \in BoolValues :
         Step(IF path = "color" THEN ColorFormatter_write_bool(Cur(k), b)
              ELSE Formatter_write_bool(Cur(k), "w", b),
              Formatter_write_bool(ref, "w", b),
              IF pc = "value" THEN "after" ELSE "keyscalar_done", stack)
    /\ UNCHANGED <<Frame, lastpart>>

WriteNumber ==
    /\ pc \in {"value", "keyscalar"}
    /\ \E k \in FailAt, v \in NumberValues,
          h \in IF pc = "value" THEN NumberHandlers ELSE KeyNumberHandlers :
         Step(IF path = "color" THEN ColorFormatter_write_number(Cur(k), h, v)
              ELSE Formatter_write_number(Cur(k), "w", h, v),
              Formatter_write_number(ref, "w", h, v),
              IF pc = "value" THEN "after" ELSE "keyscalar_done", stack)
    /\ UNCHANGED <<Frame, lastpart>>

WriteRawFragment ==
    /\ pc = "value"
    /\ \E k \in FailAt, f \in RawFragments :
         Step(IF path = "color" THEN ColorFormatter_write_raw_fragment(Cur(k), f)
              ELSE Formatter_write_raw_fragment(Cur(k), "w", f),
              Formatter_write_raw_fragment(ref, "w", f), "after", stack)
    /\ UNCHANGED <<Frame, lastpart>>

\* A value string, or the string a map key is written as: the key's text,
\* or the quotes around a key that is an integer or a boolean.
BeginString ==
    /\ pc \in {"value", "key"}
    /\ \E k \in FailAt,
          n \in IF pc = "value" THEN {"string"} ELSE {"keystring", "keyscalar"} :
         Step(IF path = "color" THEN ColorFormatter_begin_string(Cur(k))
              ELSE Formatter_begin_string(Cur(k), "w"),
              Formatter_begin_string(ref, "w"), n, stack)
    /\ lastpart' = "none"
    /\ UNCHANGED Frame

\* A fragment is a maximal run of unescaped text: never two in a row.
WriteStringFragment ==
    /\ pc \in {"string", "keystring"}
    /\ More
    /\ lastpart # "f"
    /\ \E k \in FailAt, f \in Fragments :
         Step(IF path = "color"
              THEN ColorFormatter_write_string_fragment(Cur(k), f)
              ELSE Formatter_write_string_fragment(Cur(k), "w", f),
              Formatter_write_string_fragment(ref, "w", f), pc, stack)
    /\ lastpart' = "f"
    /\ UNCHANGED Frame

WriteCharEscape ==
    /\ pc \in {"string", "keystring"}
    /\ More
    /\ \E k \in FailAt, e \in Escapes :
         Step(IF path = "color" THEN ColorFormatter_write_char_escape(Cur(k), e)
              ELSE Formatter_write_char_escape(Cur(k), "w", e),
              Formatter_write_char_escape(ref, "w", e), pc, stack)
    /\ lastpart' = "e"
    /\ UNCHANGED Frame

EndString ==
    /\ pc \in {"string", "keystring", "keyscalar_done"}
    /\ \E k \in FailAt :
         Step(IF path = "color" THEN ColorFormatter_end_string(Cur(k))
              ELSE Formatter_end_string(Cur(k), "w"),
              Formatter_end_string(ref, "w"),
              IF pc = "string" THEN "after" ELSE "endkey", stack)
    /\ lastpart' = "none"
    /\ UNCHANGED Frame

BeginArray ==
    /\ pc = "value"
    /\ More
    /\ \E k \in FailAt :
         Step(IF path = "color" THEN ColorFormatter_begin_array(Cur(k))
              ELSE Formatter_begin_array(Cur(k), "w"),
              Formatter_begin_array(ref, "w"), "next",
              Append(stack, [kind |-> "array", first |-> TRUE]))
    /\ UNCHANGED <<Frame, lastpart>>

EndArray ==
    /\ pc = "next"
    /\ Top.kind = "array"
    /\ \E k \in FailAt :
         Step(IF path = "color" THEN ColorFormatter_end_array(Cur(k))
              ELSE Formatter_end_array(Cur(k), "w"),
              Formatter_end_array(ref, "w"), "after", Pop)
    /\ UNCHANGED <<Frame, lastpart>>

BeginArrayValue ==
    /\ pc = "next"
    /\ Top.kind = "array"
    /\ More
    /\ \E k \in FailAt :
         Step(IF path = "color"
              THEN ColorFormatter_begin_array_value(Cur(k), Top.first)
              ELSE Formatter_begin_array_value(Cur(k), "w", Top.first),
              Formatter_begin_array_value(ref, "w", Top.first), "value",
              [stack EXCEPT ![Len(stack)].first = FALSE])
    /\ UNCHANGED <<Frame, lastpart>>

EndArrayValue ==
    /\ pc = "after"
    /\ Top.kind = "array"
    /\ \E k \in FailAt :
         Step(IF path = "color" THEN ColorFormatter_end_array_value(Cur(k))
              ELSE Formatter_end_array_value(Cur(k), "w"),
              Formatter_end_array_value(ref, "w"), "next", stack)
    /\ UNCHANGED <<Frame, lastpart>>

BeginObject ==
    /\ pc = "value"
    /\ More
    /\ \E k \in FailAt :
         Step(IF path = "color" THEN ColorFormatter_begin_object(Cur(k))
              ELSE Formatter_begin_object(Cur(k), "w"),
              Formatter_begin_object(ref, "w"), "next",
              Append(stack, [kind |-> "object", first |-> TRUE]))
    /\ UNCHANGED <<Frame, lastpart>>

EndObject ==
    /\ pc = "next"
    /\ Top.kind = "object"
    /\ \E k \in FailAt :
         Step(IF path = "color" THEN ColorFormatter_end_object(Cur(k))
              ELSE Formatter_end_object(Cur(k), "w"),
              Formatter_end_object(ref, "w"), "after", Pop)
    /\ UNCHANGED <<Frame, lastpart>>

BeginObjectKey ==
    /\ pc = "next"
    /\ Top.kind = "object"
    /\ More
    /\ \E k \in FailAt :
         Step(IF path = "color"
              THEN ColorFormatter_begin_object_key(Cur(k), Top.first)
              ELSE Formatter_begin_object_key(Cur(k), "w", Top.first),
              Formatter_begin_object_key(ref, "w", Top.first), "key",
              [stack EXCEPT ![Len(stack)].first = FALSE])
    /\ UNCHANGED <<Frame, lastpart>>

EndObjectKey ==
    /\ pc = "endkey"
    /\ \E k \in FailAt :
         Step(IF path = "color" THEN ColorFormatter_end_object_key(Cur(k))
              ELSE Formatter_end_object_key(Cur(k), "w"),
              Formatter_end_object_key(ref, "w"), "objvalue", stack)
    /\ UNCHANGED <<Frame, lastpart>>

BeginObjectValue ==
    /\ pc = "objvalue"
    /\ \E k \in FailAt :
         Step(IF path = "color" THEN ColorFormatter_begin_object_value(Cur(k))
              ELSE Formatter_begin_object_value(Cur(k), "w"),
              Formatter_begin_object_value(ref, "w"), "value", stack)
    /\ UNCHANGED <<Frame, lastpart>>

EndObjectValue ==
    /\ pc = "after"
    /\ Top.kind = "object"
    /\ \E k \in FailAt :
         Step(IF path = "color" THEN ColorFormatter_end_object_value(Cur(k))
              ELSE Formatter_end_object_value(Cur(k), "w"),
              Formatter_end_object_value(ref, "w"), "next", stack)
    /\ UNCHANGED <<Frame, lastpart>>

----------------------------------------------------------------------------
(* The specification of one top-level call *)

Init ==
    /\ theme = Theme_none
    /\ layout = "none"
    /\ supports_color \in BOOLEAN
    /\ path = "none"
    /\ log = << >>
    /\ err = FALSE
    /\ writing_key = FALSE
    /\ need_reset = FALSE
    /\ current_indent = 0
    /\ has_value = FALSE
    /\ ref = Fresh
    /\ stack = << >>
    /\ pc = "start"
    /\ result = "none"
    /\ events = 0
    /\ lastpart = "none"
    /\ faulty \in BOOLEAN
    /\ tcall = NoCall
    /\ borrowed = 0
    /\ again = FALSE

Next ==
    \/ to_writer
    \/ to_writer_compact
    \/ to_writer_with_theme
    \/ ToWriterWithThemeAndFormatter
    \/ WriteNull
    \/ WriteBool
    \/ WriteNumber
    \/ WriteRawFragment
    \/ BeginString
    \/ WriteStringFragment
    \/ WriteCharEscape
    \/ EndString
    \/ BeginArray
    \/ EndArray
    \/ BeginArrayValue
    \/ EndArrayValue
    \/ BeginObject
    \/ EndObject
    \/ BeginObjectKey
    \/ EndObjectKey
    \/ BeginObjectValue
    \/ EndObjectValue

Spec == Init /\ [][Next]_vars

----------------------------------------------------------------------------
(* Several top-level calls, one after the other *)

\* The call has returned; the caller renders again, onto a fresh stream of
\* the same color support and with a formatter F it builds anew.  What the
\* returned call left in its ColorFormatter is whatever it was.
Again ==
    /\ pc = "done"
    /\ pc' = "start"
    /\ again' = TRUE
    /\ path' = "none"
    /\ layout' = "none"
    /\ theme' = Theme_none
    /\ log' = << >>
    /\ err' = FALSE
    /\ current_indent' = 0
    /\ has_value' = FALSE
    /\ ref' = Fresh
    /\ stack' = << >>
    /\ result' = "none"
    /\ events' = 0
    /\ lastpart' = "none"
    /\ UNCHANGED <<supports_color, writing_key, need_reset, faulty, tcall,
                   borrowed>>

NextRepeat ==
    \/ Next
    \/ Again

SpecRepeat == Init /\ [][NextRepeat]_vars

----------------------------------------------------------------------------
(* Building a theme: the constructors and the *_mut accessors, each used   *)
(* to store a spec in its category.                                        *)

Green == set_fg(ColorSpec_new, "Green")

Specs == {ColorSpec_new, Green, RedBold}

NotWalking ==
    UNCHANGED <<layout, supports_color, path, log, err, writing_key,
                need_reset, current_indent, has_value, ref, stack, pc,
                result, events, lastpart, faulty, borrowed, again>>

CallNone ==
    /\ theme' = Theme_none
    /\ tcall' = [fn |-> "none", arg |-> ColorSpec_new]
    /\ NotWalking

CallDefault ==
    /\ theme' = Theme_default
    /\ tcall' = [fn |-> "default", arg |-> ColorSpec_new]
    /\ NotWalking

CallNew ==
    /\ \E c \in Specs :
         /\ theme' = Theme_new(c)
         /\ tcall' = [fn |-> "new", arg |-> c]
    /\ NotWalking

CallNullMut ==
    /\ \E c \in Specs :
         /\ theme' = null_mut(theme, c)
         /\ tcall' = [fn |-> "null_mut", arg |-> c]
    /\ NotWalking

CallBoolMut ==
    /\ \E c \in Specs :
         /\ theme' = bool_mut(theme, c)
         /\ tcall' = [fn |-> "bool_mut", arg |-> c]
    /\ NotWalking

CallNumberMut ==
    /\ \E c \in Specs :
         /\ theme' = number_mut(theme, c)
         /\ tcall' = [fn |-> "number_mut", arg |-> c]
    /\ NotWalking

CallStringMut ==
    /\ \E c \in Specs :
         /\ theme' = string_mut(theme, c)
         /\ tcall' = [fn |-> "string_mut", arg |-> c]
    /\ NotWalking

CallObjectKeyMut ==
    /\ \E c \in Specs :
         /\ theme' = object_key_mut(theme, c)
         /\ tcall' = [fn |-> "object_key_mut", arg |-> c]
    /\ NotWalking

InitTheme ==
    /\ Init
    /\ supports_color
    /\ ~faulty

NextTheme ==
    \/ CallNone
    \/ CallDefault
    \/ CallNew
    \/ CallNullMut
    \/ CallBoolMut
    \/ CallNumberMut
    \/ CallStringMut
    \/ CallObjectKeyMut

SpecTheme == InitTheme /\ [][NextTheme]_vars

----------------------------------------------------------------------------
(* Reading the stream's operation log *)

IsWrite(o) == o.op = "write"

IsColor(o) == o.op = "set_color"

IsSet(o) == o.op = "set_color" /\ o.fn = "set_color"

IsReset(o) == o.op = "set_color" /\ o.fn = "reset"

\* The bytes a log carries, with the color controls deleted.
Bytes(l) ==
    LET w == SelectSeq(l, IsWrite)
    IN  [i \in 1 .. Len(w) |-> w[i].bytes]

IsPrefix(a, b) == Len(a) <= Len(b) /\ a = SubSeq(b, 1, Len(a))

NoColorOps(l) == \A i \in 1 .. Len(l) : ~IsColor(l[i])

\* What the log's bytes must be: those of the plain engine alone for the
\* same events, cut at the failed operation if the stream failed.
SameBytes ==
    IF err THEN IsPrefix(Bytes(log), Bytes(ref.log))
    ELSE Bytes(log) = Bytes(ref.log)

\* The operations the step at hand has issued.
Issued == SubSeq(log', Len(log) + 1, Len(log'))

Wrote(l, by) == \E i \in 1 .. Len(l) : IsWrite(l[i]) /\ l[i].by = by

----------------------------------------------------------------------------
\* C1: on a stream whose supports_color() is false, for every theme and both
\* layouts, no color-set and no reset is issued, and the bytes written are
\* exactly those the plain-JSON engine writes for the same token events.
C1_PassThrough ==
    (~supports_color) => NoColorOps(log) /\ SameBytes

C1_Witness ==
    /\ ~supports_color
    /\ path = "plain"
    /\ layout = "pretty"
    /\ result = "Ok"
    /\ Wrote(log, "begin_object_value")
    /\ Wrote(log, "write_number")

\* C2: on a color-capable stream, rendering with Theme::none() issues no
\* color-control operation at all, and the bytes written equal the plain-JSON
\* engine's output for the same token events, in both layouts.
C2_NoneTheme ==
    (supports_color /\ path = "color" /\ theme = Theme_none)
        => NoColorOps(log) /\ SameBytes

C2_Witness ==
    /\ supports_color
    /\ path = "color"
    /\ theme = Theme_none
    /\ result = "Ok"
    /\ Wrote(log, "begin_object_value")
    /\ Wrote(log, "begin_string")
    /\ Wrote(log, "write_null")

\* C3: on a color-capable stream, for every theme, deleting the color-control
\* operations from the stream's log leaves exactly the bytes the wrapped
\* plain-JSON engine produces for the same events, in the same order.
C3_BytesUnaltered ==
    (path = "color") => SameBytes

C3_Witness ==
    /\ path = "color"
    /\ theme = Theme_default
    /\ layout = "pretty"
    /\ result = "Ok"
    /\ \E i \in 1 .. Len(log) : IsSet(log[i])
    /\ \E i \in 1 .. Len(log) : IsReset(log[i])
    /\ Wrote(log, "begin_object_value")
    /\ Wrote(log, "end_object")

\* C4: a string written as an object key is colored with the theme's
\* object-key spec, a string written as a value with the theme's string spec,
\* never the reverse; begin_string sets no color while writing_key is true, so
\* the key color and the string color are never both applied to one string.
C4_Step ==
    (path = "color") =>
      /\ \A i \in 1 .. Len(Issued) :
           (IsSet(Issued[i]) /\ Issued[i].by = "begin_string")
              => /\ ~writing_key
                 /\ pc = "value"
                 /\ Issued[i].spec = theme.string
      /\ \A i \in 1 .. Len(Issued) :
           (IsSet(Issued[i]) /\ Issued[i].by = "begin_object_key")
              => /\ pc = "next"
                 /\ Issued[i].spec = theme.object_key
      /\ (pc = "key") => writing_key /\ NoColorOps(Issued)
      /\ (pc = "next" /\ pc' = "key" /\ ~is_none(theme.object_key))
            => \E i \in 1 .. Len(Issued) :
                 /\ IsSet(Issued[i])
                 /\ Issued[i].spec = theme.object_key
      /\ (pc = "value" /\ pc' = "string" /\ ~is_none(theme.string))
            => \E i \in 1 .. Len(Issued) :
                 /\ IsSet(Issued[i])
                 /\ Issued[i].spec = theme.string

C4_KeyVsValue == [][C4_Step]_vars

C4_Witness ==
    /\ path = "color"
    /\ theme = Theme_default
    /\ result = "Ok"
    /\ \E i, j \in 1 .. Len(log) :
         /\ i < j
         /\ IsSet(log[i]) /\ log[i].by = "begin_object_key"
         /\ log[i].spec = theme.object_key
         /\ IsWrite(log[i + 1]) /\ log[i + 1].by = "begin_string"
         /\ IsSet(log[j]) /\ log[j].by = "begin_string"
         /\ log[j].spec = theme.string

----------------------------------------------------------------------------
\* The color controls after position i of the log.
ColorAfter(i) == {j \in (i + 1) .. Len(log) : IsColor(log[j])}

Min(S) == CHOOSE x \in S : \A y \in S : x <= y

SpanEnd(by) == IF by = "begin_object_key" THEN "end_object_key" ELSE "end_string"

\* C5: for every object key and every string value whose spec is non-empty,
\* the color-set comes right before the opening quote, the matching reset
\* right after the closing quote, and no other color-set or reset lies in
\* between; also for a key whose content is a number or a boolean.
C5_SpanCoversLiteral ==
    \A i \in 1 .. Len(log) :
      (IsSet(log[i]) /\ log[i].by \in {"begin_object_key", "begin_string"})
        => /\ (i < Len(log))
                => IsWrite(log[i + 1]) /\ log[i + 1].by = "begin_string"
           /\ (ColorAfter(i) # {})
                => LET j == Min(ColorAfter(i))
                   IN  /\ IsReset(log[j])
                       /\ log[j].by = SpanEnd(log[i].by)
                       /\ IsWrite(log[j - 1])
                       /\ log[j - 1].by = "end_string"
           /\ (result = "Ok") => ColorAfter(i) # {}

\* C6: the log never holds two color-sets without a reset between them.
C6_NoStackedColors ==
    \A i, j \in 1 .. Len(log) :
      (i < j /\ IsSet(log[i]) /\ IsSet(log[j]))
        => \E m \in (i + 1) .. (j - 1) : IsReset(log[m])

----------------------------------------------------------------------------
Structural ==
    {"begin_array", "end_array", "begin_array_value", "end_array_value",
     "begin_object", "end_object", "begin_object_key", "begin_object_value",
     "end_object_value"}

\* The style the stream is in when operation i is issued: the spec of the
\* last set_color before it, the empty spec if there is none.
Active(i) ==
    LET before == {j \in 1 .. (i - 1) : IsColor(log[j])}
    IN  IF before = {} THEN ColorSpec_new
        ELSE log[CHOOSE j \in before : \A m \in before : m <= j].spec

StructuralUncolored ==
    \A i \in 1 .. Len(log) :
      (IsWrite(log[i]) /\ log[i].by \in Structural) => is_none(Active(i))

\* C7 as first stated: for every theme of the public API, every structural
\* byte is written while no styling is active on the stream.
C7_Original == StructuralUncolored

\* C7: for every theme whose reset spec is empty, every structural byte
\* (brackets, braces, commas, colons, indentation) is written while no
\* styling is active on the stream.
C7_StructuralUncolored == is_none(theme.reset) => StructuralUncolored

C7_Witness ==
    /\ path = "color"
    /\ theme = Theme_default
    /\ result = "Ok"
    /\ \E i, j \in 1 .. Len(log) :
         /\ i < j
         /\ IsSet(log[i])
         /\ IsWrite(log[j]) /\ log[j].by = "begin_object_key"
         /\ log[j].bytes = ","

\* C8: with Theme::new(spec) for a non-empty spec all six specs equal spec
\* and every JSON byte, structural bytes included, is written while spec is
\* the stream's active style.
C8_UniformTheme ==
    (path = "color" /\ theme = Theme_new(RedBold))
       => /\ \A f \in DOMAIN theme : theme[f] = RedBold
          /\ \A i \in 1 .. Len(log) : IsWrite(log[i]) => Active(i) = RedBold

----------------------------------------------------------------------------
\* C9: once an operation on the stream has failed, the call returns an error
\* and nothing more is issued on the stream: the failed operation is the
\* last of the log, also inside a colored scalar, and no failure becomes Ok.
C9_FailFast ==
    /\ \A i \in 1 .. Len(log) : ~log[i].ok => i = Len(log)
    /\ err <=> (\E i \in 1 .. Len(log) : ~log[i].ok)
    /\ err => pc = "done" /\ result = "Err"
    /\ (result = "Ok") => ~err

C9_Witness ==
    /\ path = "color"
    /\ err
    /\ result = "Err"
    /\ Len(log) >= 2
    /\ IsWrite(log[Len(log)])
    /\ log[Len(log)].by = "write_number"
    /\ IsSet(log[Len(log) - 1])

----------------------------------------------------------------------------
\* C10: Theme::default() is null and bool cyan+bold, number cyan, string
\* green, object key blue+intense, reset empty; Theme::none() is empty in all
\* six; each getter reads its own category and each *_mut accessor changes
\* its own category only.
Getter(fn, t) ==
    CASE fn = "null_mut"       -> Theme_null(t)
      [] fn = "bool_mut"       -> Theme_bool(t)
      [] fn = "number_mut"     -> Theme_number(t)
      [] fn = "string_mut"     -> Theme_string(t)
      [] fn = "object_key_mut" -> Theme_object_key(t)

FieldOf(fn) ==
    CASE fn = "null_mut"       -> "null"
      [] fn = "bool_mut"       -> "bool"
      [] fn = "number_mut"     -> "number"
      [] fn = "string_mut"     -> "string"
      [] fn = "object_key_mut" -> "object_key"

Accessors == {"null_mut", "bool_mut", "number_mut", "string_mut", "object_key_mut"}

C10_State ==
    /\ (tcall.fn = "default")
          => theme = [reset      |-> [fg |-> "None", bold |-> FALSE, intense |-> FALSE],
                      null       |-> [fg |-> "Cyan", bold |-> TRUE, intense |-> FALSE],
                      bool       |-> [fg |-> "Cyan", bold |-> TRUE, intense |-> FALSE],
                      number     |-> [fg |-> "Cyan", bold |-> FALSE, intense |-> FALSE],
                      string     |-> [fg |-> "Green", bold |-> FALSE, intense |-> FALSE],
                      object_key |-> [fg |-> "Blue", bold |-> FALSE, intense |-> TRUE]]
    /\ (tcall.fn = "none")
          => \A f \in DOMAIN theme :
               theme[f] = [fg |-> "None", bold |-> FALSE, intense |-> FALSE]
    /\ (tcall.fn \in Accessors) => Getter(tcall.fn, theme) = tcall.arg

C10_Step ==
    (tcall'.fn \in Accessors)
       => \A f \in DOMAIN theme : f # FieldOf(tcall'.fn) => theme'[f] = theme[f]

C10_Themes == []C10_State /\ [][C10_Step]_vars

C10_Witness ==
    /\ tcall.fn = "string_mut"
    /\ theme.string = RedBold
    /\ theme.object_key = [fg |-> "Blue", bold |-> FALSE, intense |-> TRUE]
    /\ theme.null = [fg |-> "Cyan", bold |-> TRUE, intense |-> FALSE]

----------------------------------------------------------------------------
(* C11: repeatable rendering *)

\* C11: every top-level call, the first one or one made after an earlier call
\* returned (successfully or with an error in the middle of a key or of a
\* string), starts its walk in one and the same state: both flags false, an
\* empty log on the fresh stream, a fresh F and a fresh reference engine.
\* Every callback is a function of that state, the theme, the layout and the
\* event, so the same value rendered twice gives the same operations.
C11_Repeatable ==
    (pc = "value" /\ events = 0)
       => /\ writing_key = FALSE
          /\ need_reset = FALSE
          /\ Cur(0) = Fresh
          /\ ref = Fresh
          /\ stack = << >>

\* A second call on the color path has built its ColorFormatter.
C11_Witness ==
    /\ again
    /\ path = "color"
    /\ pc = "value"
    /\ events = 0

----------------------------------------------------------------------------
(* C12: per-category suppression *)

KeyPhase == {"key", "keystring", "keyscalar", "keyscalar_done", "endkey"}

IssuedBy(tags) == \E i \in DOMAIN Issued : Issued[i].by \in tags

\* The category of the token the callback of this step belongs to: a map key
\* lasts from begin_object_key to end_object_key, whatever the key is
\* written as.
StepCategory ==
    IF pc \in KeyPhase \/ IssuedBy({"begin_object_key"}) THEN "object_key"
    ELSE IF pc = "string" \/ IssuedBy({"begin_string"}) THEN "string"
    ELSE IF IssuedBy({"write_null"}) THEN "null"
    ELSE IF IssuedBy({"write_bool"}) THEN "bool"
    ELSE IF IssuedBy({"write_number"}) THEN "number"
    ELSE "none"

C12_Step ==
    (path = "color" /\ StepCategory # "none" /\ is_none(theme[StepCategory]))
       => NoColorOps(Issued)

\* C12: whatever the other four specs are, a callback that writes a token
\* of a category whose spec is empty issues no color-set and no reset.
C12_PerCategory == [][C12_Step]_vars

\* The same, for the callbacks outside a key that is an integer or a boolean.
C12_StepStringKeys ==
    (pc \notin {"keyscalar", "keyscalar_done"}) => C12_Step

C12_StringKeys == [][C12_StepStringKeys]_vars

----------------------------------------------------------------------------
(* C13: balanced color controls *)

Sets(n) == Cardinality({i \in 1 .. n : IsSet(log[i])})

Resets(n) == Cardinality({i \in 1 .. n : IsReset(log[i])})

\* C13: in every prefix of the operation log there are at most as many
\* resets as color-sets, and when the call has returned Ok there are as many.
C13_Balanced ==
    /\ \A n \in 1 .. Len(log) : Resets(n) <= Sets(n)
    /\ (result = "Ok") => Resets(Len(log)) = Sets(Len(log))

\* A successful walk in which a color was set while another was still open,
\* and both were reset.
C13_Witness ==
    /\ result = "Ok"
    /\ \E n \in 1 .. Len(log) : Sets(n) = Resets(n) + 2
    /\ Sets(Len(log)) >= 2

----------------------------------------------------------------------------
(* C14: scalar events *)

\* What the reference engine wrote in this step: the delegate's bytes.
IssuedRef == SubSeq(ref'.log, Len(ref.log) + 1, Len(ref'.log))

ScalarCategory(tag) ==
    CASE tag = "write_null" -> "null"
      [] tag = "write_bool" -> "bool"
      [] OTHER              -> "number"

\* The i-th operation of a colored scalar: color-set, literal, reset.
ScalarOp(o, i, tag) ==
    /\ o.by = tag
    /\ CASE i = 1 -> IsSet(o) /\ o.spec = theme[ScalarCategory(tag)]
         [] i = 2 -> IsWrite(o) /\ <<o.bytes>> = Bytes(IssuedRef)
         [] OTHER -> IsReset(o) /\ o.spec = theme.reset

C14_Step ==
    \A tag \in {"write_null", "write_bool", "write_number"} :
       ( /\ path = "color"
         /\ pc \in {"value", "keyscalar"}
         /\ IssuedBy({tag})
         /\ ~is_none(theme[ScalarCategory(tag)]) )
       => /\ Len(Issued) <= 3
          /\ \A i \in DOMAIN Issued : ScalarOp(Issued[i], i, tag)
          /\ \A i \in DOMAIN Issued : Issued[i].ok = (~err' \/ i < Len(Issued))
          /\ ~err' => Len(Issued) = 3

\* C14: a scalar callback whose category spec is not empty issues exactly a
\* color-set with that spec, the delegate's literal and a reset, in this
\* order (up to the operation that fails, if one does); null takes the null
\* spec, a bool the bool spec, every numeric callback the number spec.
C14_ScalarEvents == [][C14_Step]_vars

\* A float has just been written in the number color and reset.
C14_Witness ==
    /\ ~err
    /\ Len(log) >= 3
    /\ LET n == Len(log)
       IN  /\ IsSet(log[n - 2]) /\ log[n - 2].spec = theme.number
           /\ IsWrite(log[n - 1]) /\ log[n - 1].bytes = "1.0"
           /\ IsReset(log[n])
           /\ log[n].by = "write_number"

----------------------------------------------------------------------------
(* C15: where the color controls lie relative to the delegate *)

\* Every color control of the step comes before the delegate is entered
\* and before every byte of the step.
ControlsFirst ==
    \A i \in DOMAIN Issued :
       IsColor(Issued[i])
          => /\ ~Issued[i].after_delegate
             /\ \A j \in DOMAIN Issued : IsWrite(Issued[j]) => i < j

\* Every color control of the step comes after the delegate was entered
\* and after every byte of the step.
ControlsLast ==
    \A i \in DOMAIN Issued :
       IsColor(Issued[i])
          => /\ Issued[i].after_delegate
             /\ \A j \in DOMAIN Issued : IsWrite(Issued[j]) => j < i

HasSet(spec) == \E i \in DOMAIN Issued : IsSet(Issued[i]) /\ Issued[i].spec = spec

HasReset == \E i \in DOMAIN Issued : IsReset(Issued[i])

C15_Step ==
    (path = "color" /\ events' = events + 1)
       => \* begin_string of a value string
          /\ (pc = "value" /\ IssuedBy({"begin_string"}))
                => /\ ControlsFirst
                   /\ ~is_none(theme.string) => HasSet(theme.string)
          \* end_string of a value string
          /\ (pc = "string" /\ IssuedBy({"end_string"}))
                => /\ ControlsLast
                   /\ (need_reset /\ ~err') => HasReset
          \* begin_object_key
          /\ (pc = "next" /\ stack # << >> /\ Top.kind = "object"
                /\ (pc' = "key" \/ IssuedBy({"begin_object_key"})))
                => /\ ControlsLast
                   /\ (~is_none(theme.object_key) /\ ~err')
                         => HasSet(theme.object_key)
          \* end_object_key
          /\ (pc = "endkey")
                => /\ ControlsFirst
                   /\ need_reset => HasReset

\* C15: a value string's color-set is issued before the delegate's
\* begin_string and its reset after the delegate's end_string; a key's
\* color-set is issued after the delegate's begin_object_key, so after the
\* separator, newline and indentation, and its reset before the delegate's
\* end_object_key.
C15_Ordering == [][C15_Step]_vars

\* A second key of a pretty-printed object is closed: its color was set after
\* the comma, the newline and the indentation, and has been reset.
C15_Witness ==
    /\ pc = "objvalue"
    /\ layout = "pretty"
    /\ Len(log) >= 6
    /\ LET n == Len(log)
       IN  /\ IsReset(log[n]) /\ log[n].by = "end_object_key"
           /\ ~log[n].after_delegate
           /\ \E i \in 3 .. n :
                 /\ IsSet(log[i]) /\ log[i].by = "begin_object_key"
                 /\ log[i].after_delegate
                 /\ log[i - 1].bytes = "  "
                 /\ log[i - 2].bytes = ",\n"

----------------------------------------------------------------------------
(* C16: pass-through events *)

\* The step is a callback of the color path other than a scalar, a string
\* begin/end and an object-key begin/end.
PassThroughStep ==
    /\ path = "color"
    /\ events' = events + 1
    /\ \/ pc \in {"after", "objvalue"}
       \/ pc = "next" /\ Top.kind = "array"
       \/ IssuedBy({"write_string_fragment", "write_char_escape",
                    "write_raw_fragment", "begin_array", "begin_object",
                    "end_object"})

Max(S) == CHOOSE x \in S : \A y \in S : y <= x

\* A value string has just been closed without an error: what the log holds
\* from the operation before its opening quote on.
ClosedString ==
    LET b == Max({i \in 1 .. Len(log) :
                    IsWrite(log[i]) /\ log[i].by = "begin_string"})
    IN  SubSeq(log', b - 1, Len(log'))

C16_Step ==
    /\ PassThroughStep
         => /\ NoColorOps(Issued)
            /\ writing_key' = writing_key
            /\ need_reset' = need_reset
    /\ ( /\ path = "color"
         /\ pc = "string"
         /\ IssuedBy({"end_string"})
         /\ ~err'
         /\ ~is_none(theme.string) )
         => LET c == ClosedString
                n == Len(c)
            IN  /\ IsSet(c[1]) /\ c[1].spec = theme.string
                /\ IsReset(c[n])
                /\ \A i \in 2 .. (n - 1) : IsWrite(c[i])

\* C16: fragments, escapes, raw fragments and the array, array-value,
\* object and object-value callbacks issue no color control and leave
\* writing_key and need_reset as they were; so a value string, whatever the
\* number of its fragments and escapes, gets one color-set (before its
\* opening quote) and one reset (after its closing quote) when the string
\* spec is not empty.
C16_PassThrough == [][C16_Step]_vars

\* A colored value string of an escape, a fragment and an escape is closed.
C16_Witness ==
    /\ path = "color"
    /\ ~err
    /\ Len(log) >= 7
    /\ LET n == Len(log)
       IN  /\ IsReset(log[n]) /\ log[n].by = "end_string"
           /\ log[n - 2].by = "write_char_escape"
           /\ log[n - 3].by = "write_string_fragment"
           /\ log[n - 4].by = "write_char_escape"
           /\ log[n - 5].by = "begin_string"
           /\ IsSet(log[n - 6])

----------------------------------------------------------------------------
(* C17: writing_key *)

\* C17: writing_key is false before the walk; while the walk has not failed
\* it is true exactly from a begin_object_key to the matching
\* end_object_key, so false while the key's value is written, a nested
\* object included, and false when the call has returned Ok.  The plain path
\* has no such flag to set.
C17_WritingKey ==
    /\ (pc = "start") => ~writing_key
    /\ (path = "plain") => ~writing_key
    /\ (path = "color" /\ ~err) => (writing_key <=> pc \in KeyPhase)
    /\ (result = "Ok") => ~writing_key

\* Inside an object that is the value of a key of an outer object: the
\* outer key is closed, and a key of the inner object is open.
C17_Witness ==
    /\ path = "color"
    /\ Len(stack) = 2
    /\ stack[1].kind = "object"
    /\ stack[2].kind = "object"
    /\ pc = "keystring"
    /\ writing_key

\* The value of a key is being written and no key is open.
C17_WitnessValue ==
    /\ path = "color"
    /\ Len(stack) = 2
    /\ stack[1].kind = "object"
    /\ pc = "next"
    /\ ~writing_key

----------------------------------------------------------------------------
(* C18: need_reset *)

\* While the walk has not failed, need_reset is what the begin of the open
\* value string or of the open key stored, and false outside both.
C18_State ==
    /\ (path # "color") => ~need_reset
    /\ (path = "color" /\ ~err)
          => need_reset = CASE pc = "string"    -> ~is_none(theme.string)
                            [] pc \in KeyPhase -> ~is_none(theme.object_key)
                            [] OTHER            -> FALSE
    /\ (result = "Ok") => ~need_reset

\* The end consumes it: a reset is issued exactly when it was true.
C18_Step ==
    ( /\ path = "color"
      /\ ~err'
      /\ \/ pc = "string" /\ IssuedBy({"end_string"})
         \/ pc = "endkey" /\ events' = events + 1 )
       => /\ HasReset <=> need_reset
          /\ ~need_reset'

\* C18: the need_reset an end_string of a value string consumes is the one
\* its begin_string stored, the one end_object_key consumes is the one the
\* matching begin_object_key stored; nothing in between (the key's own
\* string, fragments, escapes, scalars) writes it; and it is false outside
\* a value string and a key, so at the end of a successful walk.
C18_NeedReset == []C18_State /\ [][C18_Step]_vars

\* An integer key has been written inside a colored key: the flag is still
\* the key's.
C18_Witness ==
    /\ path = "color"
    /\ pc = "keyscalar_done"
    /\ ~err
    /\ need_reset
    /\ IsReset(log[Len(log)])
    /\ log[Len(log)].by = "write_number"

----------------------------------------------------------------------------
(* C19: exclusive access to the shared stream *)

\* C19: no borrow of the SharedWriter's stream is live between two
\* callbacks, every operation that reached the stream ran under exactly its
\* own borrow (under none on the plain path, which has no SharedWriter), and
\* no borrow_mut has found the stream borrowed: the call never panics.
C19_Exclusive ==
    /\ borrowed = 0
    /\ result # "Panic"
    /\ \A i \in DOMAIN log :
          log[i].live = (IF path = "color" THEN 1 ELSE 0)

\* Both users of the SharedWriter have operated on the stream, the delegate
\* between a color-set and a reset of the formatter, and the call returned.
C19_Witness ==
    /\ path = "color"
    /\ result = "Ok"
    /\ \E i \in 2 .. (Len(log) - 1) :
          /\ IsWrite(log[i])
          /\ IsSet(log[i - 1])
          /\ IsReset(log[i + 1])

====
